---- MODULE Spec2Model ----
(***************************************************************************)
(* The parallax scheduler of src/script.js (initParallax, updateParallax,  *)
(* requestTick and the debounced resize listener) as a state machine.      *)
(*                                                                         *)
(* The browser is the environment: it delivers DOMContentLoaded, scroll    *)
(* and resize notifications, lets time pass, fires due timers and runs the *)
(* queued animation-frame callbacks at each display refresh.  Lengths are  *)
(* CSS pixels, times are milliseconds.  Depth attributes range over        *)
(* strings of the alphabet { space, sign, digits, letters }, so every      *)
(* depth is an integer; viewport heights are even, so v/2 is exact.        *)
(***************************************************************************)
EXTENDS Integers, Sequences, FiniteSets

VARIABLES
    phase,                \* "loading": init() not run yet; "ready": init() has run
    prefersReducedMotion, \* the const of script.js:12, read once at script start
    mediaReduce,          \* the live value of the (prefers-reduced-motion) query
    elements,             \* the [data-depth] elements of the document, in order
    scrollY,              \* window.scrollY
    innerHeight,          \* window.innerHeight
    transform,            \* element.style.transform of each element
    scrollListener,       \* requestTick is registered for 'scroll'
    resizeListener,       \* the debounce handler is registered for 'resize'
    ticking,              \* the flag of script.js:35
    rafQueue,             \* updateParallax callbacks queued by requestAnimationFrame
    frameLeft,            \* callbacks of the running refresh that have not run yet
    timers,               \* pending setTimeout timers: records [id, remaining]
    resizeTimeout,        \* the handle of script.js:87 (0: undefined)
    \* history of the run, read by the properties only
    firstTrigger,         \* what started the first pass
    initialPasses,        \* passes run inside initParallax
    lastSkipped,          \* the last pass left alone an element that carries an offset
    fresh,                \* nothing a pass reads has changed since the last pass
    scrollPending,        \* a scroll notification not yet followed by a pass
    frameScrolls,         \* scroll notifications since the last refresh (saturating)
    frameResize,          \* resize activity since the last refresh
    sinceResize,          \* ms since the last resize notification (-1: none yet)
    firedSinceResize,     \* resize passes since the last resize notification
    fireDelay,            \* sinceResize when the last resize pass started (-1: none)
    burst                 \* resize notifications since the last resize pass (saturating)

vars ==
    << phase, prefersReducedMotion, mediaReduce, elements, scrollY, innerHeight,
       transform, scrollListener, resizeListener, ticking, rafQueue, frameLeft,
       timers, resizeTimeout, firstTrigger, initialPasses, lastSkipped, fresh,
       scrollPending, frameScrolls, frameResize, sinceResize, firedSinceResize,
       fireDelay, burst >>

---------------------------------------------------------------------------
\* Program constants

\* the visibility margin of script.js:52-53
Margin == 200

\* the debounce delay of script.js:90
ResizeDelay == 150

---------------------------------------------------------------------------
\* Bounds of the model

\* most animation-frame callbacks queued at once
MaxQueued == 2

\* most timers pending at once
MaxTimers == 2

\* ms that pass in one step of time (less when a timer is due sooner)
TimeStep == 50

\* the count of scroll notifications per refresh interval saturates here
MaxScrollCount == 2

\* the count of resize notifications per burst saturates here
MaxBurst == 2

---------------------------------------------------------------------------
\* Inputs

ScrollYs == {0, 100, 500, 1300}

Heights == {600, 800}

Str(s) == [present |-> TRUE, value |-> s]

Missing == [present |-> FALSE, value |-> <<>>]

El(t, h, a) == [top |-> t, height |-> h, attr |-> a]

\* attribute values without a leading number
JunkAttrs ==
    { Missing, Str(<<>>), Str(<<"a", "b", "c">>), Str(<<"p", "x", "2">>),
      Str(<<"-">>), Str(<<" ">>) }

Documents ==
    { <<>>,
      << El(1000, 100, Str(<<"1">>)) >>,
      << El(1000, 100, Str(<<"1">>)), El(1000, 100, Str(<<"2">>)) >>,
      << El(1000, 100, Str(<<"a", "b", "c">>)), El(1000, 100, Str(<<"-", "1">>)) >>,
      << El(1000, 100, Missing), El(1000, 100, Str(<<" ", "2", "p", "x">>)) >>,
      << El(1000, 100, Str(<<>>)), El(1000, 100, Str(<<"0">>)) >>,
      << El(1000, 100, Str(<<"p", "x", "2">>)), El(400, 300, Str(<<"+", "1", "0">>)) >>,
      << El(1000, 100, Str(<<"-">>)), El(1000, 100, Str(<<" ">>)) >> }

---------------------------------------------------------------------------
\* parseFloat(element.getAttribute('data-depth')) || 0

DigitChars == <<"0", "1", "2", "3", "4", "5", "6", "7", "8", "9">>

IsDigit(c) == \E i \in 1..10 : DigitChars[i] = c

DigitVal(c) == (CHOOSE i \in 1..10 : DigitChars[i] = c) - 1

\* getAttribute returns null for a missing attribute; parseFloat reads "null"
ToStr(a) == IF a.present THEN a.value ELSE <<"n", "u", "l", "l">>

RECURSIVE TrimStart(_)
TrimStart(s) ==
    IF s # <<>> /\ Head(s) = " " THEN TrimStart(Tail(s)) ELSE s

RECURSIVE DigitPrefix(_)
DigitPrefix(s) ==
    IF s # <<>> /\ IsDigit(Head(s)) THEN <<Head(s)>> \o DigitPrefix(Tail(s)) ELSE <<>>

RECURSIVE DecValue(_)
DecValue(ds) ==
    IF ds = <<>> THEN 0
    ELSE 10 * DecValue(SubSeq(ds, 1, Len(ds) - 1)) + DigitVal(ds[Len(ds)])

NaN == <<>>

\* <<n>> for the number n, NaN when no number starts the string
ParseFloat(s) ==
    LET t == TrimStart(s)
        signed == t # <<>> /\ Head(t) \in {"-", "+"}
        sign == IF t # <<>> /\ Head(t) = "-" THEN -1 ELSE 1
        ds == DigitPrefix(IF signed THEN Tail(t) ELSE t)
    IN  IF ds = <<>> THEN NaN ELSE << sign * DecValue(ds) >>

\* faulty variant: the fallback of || is 1
DepthOrOne(a) ==
    LET p == ParseFloat(ToStr(a)) IN IF p = NaN THEN 1 ELSE p[1]

Depth(a) ==
    LET p == ParseFloat(ToStr(a)) IN IF p = NaN \/ p[1] = 0 THEN 0 ELSE p[1]

---------------------------------------------------------------------------
\* updateParallax

None == <<>>

Translate3d(x, y, z) == <<x, y, z>>

TranslateY(t) == IF t = None THEN 0 ELSE t[2]

\* getBoundingClientRect().top: the layout box moved by the element's transform
RectTop(e, tr, s) == elements[e].top - s + TranslateY(tr[e])

ElementTop(e, tr, s) == RectTop(e, tr, s) + s

\* faulty variant: no visibility test
IsInViewportAlways(top, h, s, v) == TRUE

IsInViewport(top, h, s, v) ==
    /\ top < s + v + Margin
    /\ top + h > s - Margin

\* faulty variant: the whole viewport height instead of half of it
OffsetFullHeight(s, top, v, d) == (s - top + v) * d

Offset(s, top, v, d) == (s - top + v \div 2) * d

Active(e, tr, s, v) ==
    IsInViewport(ElementTop(e, tr, s), elements[e].height, s, v)

Pass(tr, s, v) ==
    [ e \in DOMAIN tr |->
        IF Active(e, tr, s, v)
        THEN Translate3d(0, Offset(s, ElementTop(e, tr, s), v, Depth(elements[e].attr)), 0)
        ELSE tr[e] ]

\* faulty variant: the pass leaves ticking as it is
KeepTicking(t) == t

TickingAfterPass(t) == FALSE

UpdateParallax(trigger) ==
    /\ transform' = Pass(transform, scrollY, innerHeight)
    /\ ticking' = TickingAfterPass(ticking)
    /\ firstTrigger' = IF firstTrigger = "none" THEN trigger ELSE firstTrigger
    /\ lastSkipped' = \E e \in DOMAIN transform :
                         ~Active(e, transform, scrollY, innerHeight) /\ transform[e] # None
    /\ fresh' = TRUE
    /\ scrollPending' = FALSE

---------------------------------------------------------------------------
\* requestTick

\* faulty variant: no test of ticking
RequestTickAlways(t, q) == q + 1

RequestTick(t, q) == IF ~t THEN q + 1 ELSE q

---------------------------------------------------------------------------
\* setTimeout / clearTimeout

FreeId == CHOOSE i \in 1..(MaxTimers + 1) : \A t \in timers : t.id # i

\* faulty variant: the pending timer is not cleared
ClearTimeoutNoop(ts, id) == ts

ClearTimeout(ts, id) == { t \in ts : t.id # id }

SetTimeout(ts, id, delay) == ts \cup { [id |-> id, remaining |-> delay] }

Due == { t \in timers : t.remaining = 0 }

Min(a, b) == IF a < b THEN a ELSE b

---------------------------------------------------------------------------
\* initParallax

\* faulty variants: one of the two early returns is missing
EnabledWithElements(prm, n) == n # 0

EnabledUnlessReduced(prm, n) == ~prm

ParallaxEnabled(prm, n) == ~prm /\ n # 0

Init ==
    /\ phase = "loading"
    /\ prefersReducedMotion \in BOOLEAN
    /\ mediaReduce = prefersReducedMotion
    /\ elements \in Documents
    /\ scrollY \in ScrollYs
    /\ innerHeight \in Heights
    /\ transform = [ e \in DOMAIN elements |-> None ]
    /\ scrollListener = FALSE
    /\ resizeListener = FALSE
    /\ ticking = FALSE
    /\ rafQueue = 0
    /\ frameLeft = 0
    /\ timers = {}
    /\ resizeTimeout = 0
    /\ firstTrigger = "none"
    /\ initialPasses = 0
    /\ lastSkipped = FALSE
    /\ fresh = FALSE
    /\ scrollPending = FALSE
    /\ frameScrolls = 0
    /\ frameResize = FALSE
    /\ sinceResize = -1
    /\ firedSinceResize = 0
    /\ fireDelay = -1
    /\ burst = 0

\* DOMContentLoaded: init() runs initParallax()
DOMContentLoaded ==
    /\ phase = "loading"
    /\ phase' = "ready"
    /\ IF ParallaxEnabled(prefersReducedMotion, Len(elements))
       THEN /\ scrollListener' = TRUE
            /\ UpdateParallax("initial")
            /\ initialPasses' = initialPasses + 1
            /\ resizeListener' = TRUE
       ELSE /\ UNCHANGED << scrollListener, resizeListener, initialPasses, transform,
                            ticking, firstTrigger, lastSkipped, fresh,
                            scrollPending >>
    /\ UNCHANGED << prefersReducedMotion, mediaReduce, elements, scrollY, innerHeight,
                    rafQueue, frameLeft, timers, resizeTimeout, frameScrolls,
                    frameResize, sinceResize, firedSinceResize,
                    fireDelay, burst >>

\* the user changes the reduced-motion preference while the page is open
PrefChange ==
    /\ frameLeft = 0
    /\ prefersReducedMotion
    /\ mediaReduce' = ~mediaReduce
    /\ UNCHANGED << phase, prefersReducedMotion, elements, scrollY, innerHeight,
                    transform, scrollListener, resizeListener, ticking, rafQueue,
                    frameLeft, timers, resizeTimeout, firstTrigger,
                    initialPasses, lastSkipped, fresh, scrollPending, frameScrolls,
                    frameResize, sinceResize, firedSinceResize,
                    fireDelay, burst >>

\* the page scrolls to y; the scroll listener, when registered, is requestTick
Scroll(y) ==
    /\ frameLeft = 0
    /\ y # scrollY
    /\ rafQueue < MaxQueued
    /\ scrollY' = y
    /\ fresh' = FALSE
    /\ IF scrollListener
       THEN /\ rafQueue' = RequestTick(ticking, rafQueue)
            /\ ticking' = TRUE
            /\ scrollPending' = TRUE
            /\ frameScrolls' = Min(frameScrolls + 1, MaxScrollCount)
       ELSE UNCHANGED << rafQueue, ticking, scrollPending, frameScrolls >>
    /\ UNCHANGED << phase, prefersReducedMotion, mediaReduce, elements, innerHeight,
                    transform, scrollListener, resizeListener, frameLeft, timers,
                    resizeTimeout, firstTrigger, initialPasses,
                    lastSkipped, frameResize, sinceResize,
                    firedSinceResize, fireDelay, burst >>

\* the window is resized to height v; the resize listener restarts the timer
Resize(v) ==
    /\ frameLeft = 0
    /\ Cardinality(timers) < MaxTimers
    /\ innerHeight' = v
    /\ fresh' = (fresh /\ v = innerHeight)
    /\ IF resizeListener
       THEN /\ timers' = SetTimeout(ClearTimeout(timers, resizeTimeout), FreeId, ResizeDelay)
            /\ resizeTimeout' = FreeId
            /\ frameResize' = TRUE
            /\ sinceResize' = 0
            /\ firedSinceResize' = 0
            /\ fireDelay' = -1
            /\ burst' = IF timers = {} THEN 1 ELSE Min(burst + 1, MaxBurst)
       ELSE UNCHANGED << timers, resizeTimeout, frameResize, sinceResize, firedSinceResize,
                         fireDelay, burst >>
    /\ UNCHANGED << phase, prefersReducedMotion, mediaReduce, elements, scrollY,
                    transform, scrollListener, resizeListener, ticking, rafQueue,
                    frameLeft, firstTrigger, initialPasses, lastSkipped,
                    scrollPending, frameScrolls >>

\* time passes, up to the next timer's due time
Tick ==
    /\ frameLeft = 0
    /\ Due = {}
    /\ timers # {}
    /\ LET dt == CHOOSE d \in 1..TimeStep :
                    /\ \A t \in timers : d <= t.remaining
                    /\ d = TimeStep \/ \E t \in timers : d = t.remaining
       IN  /\ timers' = { [id |-> t.id, remaining |-> t.remaining - dt] : t \in timers }
           /\ sinceResize' = IF sinceResize < 0 THEN sinceResize
                             ELSE Min(sinceResize + dt, ResizeDelay + TimeStep)
    /\ UNCHANGED << phase, prefersReducedMotion, mediaReduce, elements, scrollY,
                    innerHeight, transform, scrollListener, resizeListener, ticking,
                    rafQueue, frameLeft, resizeTimeout, firstTrigger,
                    initialPasses, lastSkipped, fresh, scrollPending, frameScrolls,
                    frameResize, firedSinceResize, fireDelay, burst >>

\* a due timer fires: setTimeout(updateParallax, 150)
TimerFire ==
    /\ frameLeft = 0
    /\ \E t \in Due :
         /\ timers' = timers \ {t}
         /\ UpdateParallax("resize")
         /\ frameResize' = TRUE
         /\ firedSinceResize' = firedSinceResize + 1
         /\ fireDelay' = sinceResize
    /\ UNCHANGED << phase, prefersReducedMotion, mediaReduce, elements, scrollY,
                    innerHeight, scrollListener, resizeListener, rafQueue, frameLeft,
                    resizeTimeout, initialPasses, frameScrolls, sinceResize, burst >>

\* a display refresh begins: the callbacks queued so far are the ones it runs
Refresh ==
    /\ phase = "ready"
    /\ frameLeft = 0
    /\ frameLeft' = rafQueue
    /\ rafQueue' = 0
    /\ frameScrolls' = 0
    /\ frameResize' = FALSE
    /\ UNCHANGED << phase, prefersReducedMotion, mediaReduce, elements, scrollY,
                    innerHeight, transform, scrollListener, resizeListener, ticking,
                    timers, resizeTimeout, firstTrigger, initialPasses,
                    lastSkipped, fresh, scrollPending, sinceResize, firedSinceResize,
                    fireDelay, burst >>

\* the refresh runs one of its callbacks: requestAnimationFrame(updateParallax)
RunCallback ==
    /\ frameLeft > 0
    /\ frameLeft' = frameLeft - 1
    /\ UpdateParallax("scroll")
    /\ UNCHANGED << phase, prefersReducedMotion, mediaReduce, elements, scrollY,
                    innerHeight, scrollListener, resizeListener, rafQueue, timers,
                    resizeTimeout, initialPasses, frameScrolls, frameResize,
                    sinceResize, firedSinceResize, fireDelay, burst >>

Next ==
    \/ DOMContentLoaded
    \/ PrefChange
    \/ \E y \in ScrollYs : Scroll(y)
    \/ \E v \in Heights : Resize(v)
    \/ Tick
    \/ TimerFire
    \/ Refresh
    \/ RunCallback

Spec == Init /\ [][Next]_vars
\* The browser keeps refreshing the display and runs the callbacks of a refresh.
\* Scheduling does not depend on what the document holds: two documents.
LiveDocuments == { d \in Documents : Len(d) = 1 \/ \E e \in DOMAIN d : Depth(d[e].attr) < 0 }

LiveInit == Init /\ elements \in LiveDocuments

FairSpec == LiveInit /\ [][Next]_vars /\ WF_vars(Refresh) /\ WF_vars(RunCallback)

---------------------------------------------------------------------------
\* Properties

\* a step in which updateParallax runs
PassStep ==
    \/ RunCallback
    \/ TimerFire
    \/ DOMContentLoaded /\ scrollListener'

Queued == rafQueue + frameLeft

\* elementTop as line 47 computes it, from the state before the pass
TopOf(e) == elements[e].top + TranslateY(transform[e])

InWindow(e) ==
    /\ TopOf(e) < scrollY + innerHeight + 200
    /\ TopOf(e) + elements[e].height > scrollY - 200

\* C1: after registration, one or more scroll notifications delivered since the
\* last display refresh, with no resize activity in between, leave exactly one
\* updateParallax callback queued (the later ones find ticking set and queue
\* nothing), and the next refresh runs exactly that one pass.
CoalescingHolds ==
    /\ [](scrollListener /\ frameLeft = 0 /\ frameScrolls >= 1 /\ ~frameResize
            => rafQueue = 1 /\ ticking)
    /\ [][Refresh /\ scrollListener /\ frameScrolls >= 1 /\ ~frameResize
            => frameLeft' = 1 /\ rafQueue' = 0]_vars
    /\ [][RunCallback => frameLeft' = frameLeft - 1 /\ rafQueue' = rafQueue]_vars

CoalescingWitness ==
    /\ scrollListener
    /\ frameScrolls = MaxScrollCount
    /\ ~frameResize
    /\ rafQueue = 1
    /\ ticking

\* C2: in every reachable state at most one updateParallax callback is queued,
\* and ticking is true exactly when one is queued.
SchedulingFlagClaim ==
    /\ Queued <= 1
    /\ ticking <=> Queued = 1

\* C3: at most one debounce timer is pending; a timer is pending exactly from a
\* resize notification until the resize pass that follows it; that pass runs
\* exactly ResizeDelay ms after the last notification, and it is the only one
\* until the next notification.
DebounceHolds ==
    /\ Cardinality(timers) <= 1
    /\ \A t \in timers : t.id = resizeTimeout /\ t.remaining = ResizeDelay - sinceResize
    /\ timers # {} <=> (sinceResize >= 0 /\ firedSinceResize = 0)
    /\ firedSinceResize <= 1
    /\ firedSinceResize = 1 => fireDelay = ResizeDelay
    /\ sinceResize <= ResizeDelay

DebounceWitness ==
    /\ burst = MaxBurst
    /\ timers = {}
    /\ firedSinceResize = 1
    /\ fireDelay = ResizeDelay

\* C4: when the reduced-motion preference is set at script start, no listener is
\* ever registered, no callback or timer is ever queued and no element's
\* transform is ever written, whatever happens later and even if the preference
\* changes.
ReducedMotionHolds ==
    prefersReducedMotion =>
        /\ ~scrollListener
        /\ ~resizeListener
        /\ Queued = 0
        /\ ~ticking
        /\ timers = {}
        /\ resizeTimeout = 0
        /\ firstTrigger = "none"
        /\ \A e \in DOMAIN transform : transform[e] = None

ReducedMotionWitness ==
    /\ prefersReducedMotion
    /\ ~mediaReduce
    /\ phase = "ready"
    /\ Len(elements) > 0

\* C5: a pass that runs when scroll offset, viewport height and depth attributes
\* have not changed since the pass before it writes the same transforms again.
IdempotenceClaim ==
    [][(RunCallback \/ TimerFire) /\ fresh => transform' = transform]_vars

\* C6: a pass gives every element that passes the visibility test the transform
\* translate3d(0, (s - elementTop + v/2) * d, 0), with s and v as they are when
\* the pass starts; for elementTop 1000, height 100 and v 800 the element is
\* written for 0 < s < 1300 and left alone otherwise, at s = 500 the offset is
\* -100 * d, and an element of twice the depth at the same place gets twice the
\* offset.
OffsetHolds ==
    [][PassStep =>
        /\ scrollY' = scrollY
        /\ innerHeight' = innerHeight
        /\ \A e \in DOMAIN transform :
             LET d == Depth(elements[e].attr)
                 top == TopOf(e)
                 window == TopOf(e) = 1000 /\ elements[e].height = 100 /\ innerHeight = 800
             IN  /\ InWindow(e) =>
                        transform'[e] = <<0, (scrollY - top + innerHeight \div 2) * d, 0>>
                 /\ window /\ 0 < scrollY /\ scrollY < 1300 =>
                        transform'[e] = <<0, (scrollY - 600) * d, 0>>
                 /\ window /\ (scrollY <= 0 \/ scrollY >= 1300) =>
                        transform'[e] = transform[e]
                 /\ window /\ scrollY = 500 => transform'[e][2] = -100 * d
                 /\ \A f \in DOMAIN transform :
                        /\ InWindow(e)
                        /\ TopOf(f) = top
                        /\ InWindow(f)
                        /\ Depth(elements[f].attr) = 2 * d
                        => transform'[f][2] = 2 * transform'[e][2]
    ]_vars

OffsetWitness ==
    /\ fresh
    /\ scrollY = 500
    /\ innerHeight = 800
    /\ \E e, f \in DOMAIN transform :
         /\ Depth(elements[e].attr) = 1
         /\ Depth(elements[f].attr) = 2
         /\ transform[e] = <<0, -100, 0>>
         /\ transform[f] = <<0, -200, 0>>

\* C7: an element whose depth attribute is missing, empty or starts with no
\* number has depth 0 and is never displaced, and a pass still writes every
\* element in the visibility window, whatever the attributes of the others.
ZeroFallbackHolds ==
    /\ [](\A e \in DOMAIN transform :
            elements[e].attr \in JunkAttrs =>
                /\ Depth(elements[e].attr) = 0
                /\ transform[e] \in {None, <<0, 0, 0>>})
    /\ [][PassStep =>
            \A e \in DOMAIN transform :
                /\ InWindow(e) => transform'[e] # None
                /\ InWindow(e) /\ elements[e].attr \in JunkAttrs
                        => transform'[e] = <<0, 0, 0>>]_vars

ZeroFallbackWitness ==
    \E e, f \in DOMAIN transform :
        /\ e < f
        /\ elements[e].attr \in JunkAttrs
        /\ transform[e] = <<0, 0, 0>>
        /\ elements[f].attr \notin JunkAttrs
        /\ TranslateY(transform[f]) # 0

\* C8: when initParallax registers, exactly one pass runs inside it and it is the
\* first pass of the run; with no trackable element (or with reduced motion) no
\* pass runs and nothing is registered or queued.
InitialPassHolds ==
    /\ phase = "loading" =>
            /\ firstTrigger = "none"
            /\ initialPasses = 0
            /\ ~scrollListener /\ ~resizeListener
    /\ phase = "ready" /\ ~prefersReducedMotion /\ Len(elements) > 0 =>
            /\ scrollListener /\ resizeListener
            /\ initialPasses = 1
            /\ firstTrigger = "initial"
    /\ phase = "ready" /\ Len(elements) = 0 =>
            /\ ~scrollListener /\ ~resizeListener
            /\ initialPasses = 0
            /\ firstTrigger = "none"
            /\ Queued = 0
            /\ timers = {}

InitialPassWitness ==
    /\ initialPasses = 1
    /\ firstTrigger = "initial"
    /\ firedSinceResize = 1
    /\ scrollPending

\* C9: a pass leaves the transform of every element outside the visibility
\* window as it was, clears ticking, and changes nothing else of the program's
\* state: scroll offset, viewport height, document, queued callbacks and the
\* timer handle stay as they are.
FrameHolds ==
    [][PassStep =>
        /\ \A e \in DOMAIN transform : ~InWindow(e) => transform'[e] = transform[e]
        /\ ~ticking'
        /\ UNCHANGED << scrollY, innerHeight, elements, rafQueue, resizeTimeout,
                        prefersReducedMotion >>
    ]_vars

FrameWitness ==
    /\ fresh
    /\ lastSkipped
    /\ \E e \in DOMAIN transform : ~InWindow(e) /\ TranslateY(transform[e]) # 0

\* C10: ticking is never true while no refresh callback is queued, and, the
\* queued refresh callbacks being run, every scroll notification delivered to
\* the listener is followed by a pass.
NoLostScrollHolds ==
    /\ [](ticking => Queued >= 1)
    /\ scrollPending ~> ~scrollPending

NoLostScrollWitness ==
    /\ scrollPending
    /\ frameResize
    /\ timers # {}
    /\ Queued = MaxQueued

====
